---- MODULE Spec2Model ----
(***************************************************************************)
(* Model of the FitnessForSplunk modular input                             *)
(* (TA-GoogleFitness/bin/src/FitnessInput.go): configuration validation,   *)
(* credential resolution from storage/passwords, strategy dispatch and the *)
(* checkpointed polling loop of StreamEvents.                              *)
(*                                                                         *)
(* Representation:                                                         *)
(*  - a time.Time is an integer number of hours; time.Now() reads `now`,   *)
(*    a clock that never runs backwards;                                   *)
(*  - a Go string that the code only compares is a TLA+ string; a string   *)
(*    the code splits or searches is a sequence of one-character strings;  *)
(*  - log.Fatal / a run-time panic end the run in pc = "failed" with the   *)
(*    cause in failReason;                                                 *)
(*  - trace records, for the current run, the externally visible steps.    *)
(***************************************************************************)
EXTENDS Integers, Sequences, FiniteSets, TLC

(***************************************************************************)
(* Bounds of the model.                                                    *)
(***************************************************************************)
MaxTime == 3
MaxRuns == 2
MaxEntries == 2
MaxExp == 29

(***************************************************************************)
(* Program constants.                                                      *)
(***************************************************************************)
APP_NAME == "TA-GoogleFitness"
STRATEGY_GOOGLE == "GoogleFitness"
STRATEGY_FITBIT == "FitBit"
STRATEGY_MICROSOFT == "Microsoft"
STRATEGY_PARAM_NAME == "FitnessService"
ENFORCE_CERT_VALIDATION == "force_cert_validation"
\* readCheckPoint: time.Now().Add(-2 * time.Hour)
FallbackMargin == 2
\* the marker getAppCredentials looks for in an entry's ID
APP_ID_MARKER == <<"apps.googleusercontent.com">>
\* the separator getCheckPointPath splits the stanza name on
SCHEME_SEP == <<":", "/", "/">>

(***************************************************************************)
(* Strings that are searched or split: sequences of characters.            *)
(***************************************************************************)
\* strings.Index: first position where sub occurs in s, 0 if none
Index(s, sub) ==
    LET hits == {i \in 1..(Len(s) - Len(sub) + 1) :
                    SubSeq(s, i, i + Len(sub) - 1) = sub}
    IN  IF hits = {} THEN 0 ELSE CHOOSE i \in hits : \A j \in hits : i <= j

\* strings.Contains
Contains(s, sub) == Index(s, sub) # 0

\* strings.Split(s, sep) for a non-empty sep
RECURSIVE Split(_, _)
Split(s, sep) ==
    LET i == Index(s, sep)
    IN  IF i = 0 THEN <<s>>
        ELSE <<SubSeq(s, 1, i - 1)>> \o Split(SubSeq(s, i + Len(sep), Len(s)), sep)

\* path.Join of two elements without "." or ".." parts: empty elements are
\* dropped, the others joined by a slash
PathJoin(a, b) ==
    IF a = <<>> THEN b ELSE IF b = <<>> THEN a ELSE a \o <<"/">> \o b

(***************************************************************************)
(* Configurations (splunk.ModInputConfig): stanzas with ordered params.    *)
(***************************************************************************)
Param(n, v) == [Name |-> n, Value |-> v]
Stanza(name, params) == [StanzaName |-> name, Params |-> params]
ModInputConfig(stanzas) ==
    [Stanzas |-> stanzas, CheckpointDir |-> <<"d">>, SessionKey |-> "key"]

NameA == <<"f", ":", "/", "/", "a">>
NameB == <<"f", ":", "/", "/", "b">>
NameNoScheme == <<"a">>
NameNested == <<"f", ":", "/", "/", "a", ":", "/", "/", "b">>

KnownProviders == {STRATEGY_GOOGLE, STRATEGY_FITBIT, STRATEGY_MICROSOFT}

\* the configurations the host hands to the input in this model
RunConfigs ==
    { ModInputConfig(<<Stanza(NameA, <<Param(STRATEGY_PARAM_NAME, v)>>)>>) :
          v \in KnownProviders \cup {"Unknown"} }
    \cup
    { ModInputConfig(<<Stanza(NameA, <<Param(ENFORCE_CERT_VALIDATION, "true")>>)>>),
      ModInputConfig(<<Stanza(NameA, <<Param(STRATEGY_PARAM_NAME, STRATEGY_FITBIT),
                                        Param(STRATEGY_PARAM_NAME, STRATEGY_GOOGLE)>>)>>),
      ModInputConfig(<<Stanza(NameA, <<Param(STRATEGY_PARAM_NAME, STRATEGY_GOOGLE)>>),
                       Stanza(NameB, <<Param(STRATEGY_PARAM_NAME, STRATEGY_FITBIT)>>)>>),
      ModInputConfig(<<Stanza(NameNoScheme,
                              <<Param(STRATEGY_PARAM_NAME, STRATEGY_GOOGLE)>>)>>),
      ModInputConfig(<<Stanza(NameNested,
                              <<Param(STRATEGY_PARAM_NAME, STRATEGY_GOOGLE)>>)>>) }

(***************************************************************************)
(* ValidateScheme, lines 71-83: the first FitnessService parameter whose   *)
(* value is none of the three strategies rejects the configuration.        *)
(***************************************************************************)
RECURSIVE ValidateParams(_)
ValidateParams(params) ==
    IF params = <<>> THEN [ok |-> TRUE, msg |-> ""]
    ELSE LET param == Head(params)
         IN  IF param.Name = STRATEGY_PARAM_NAME
                /\ ~(param.Value = STRATEGY_GOOGLE
                     \/ param.Value = STRATEGY_FITBIT
                     \/ param.Value = STRATEGY_MICROSOFT)
             THEN [ok |-> FALSE, msg |-> param.Value]
             ELSE ValidateParams(Tail(params))

RECURSIVE ValidateStanzas(_)
ValidateStanzas(stanzas) ==
    IF stanzas = <<>> THEN [ok |-> TRUE, msg |-> ""]
    ELSE LET r == ValidateParams(Head(stanzas).Params)
         IN  IF ~r.ok THEN r ELSE ValidateStanzas(Tail(stanzas))

ValidateScheme(cfg) == ValidateStanzas(cfg.Stanzas)

(***************************************************************************)
(* getStrategy, lines 132-146: the value of the last FitnessService        *)
(* parameter of the last stanza that has one; "" makes the caller die.     *)
(***************************************************************************)
RECURSIVE StrategyOfParams(_, _)
StrategyOfParams(params, strategy) ==
    IF params = <<>> THEN strategy
    ELSE StrategyOfParams(Tail(params),
                          IF Head(params).Name = STRATEGY_PARAM_NAME
                          THEN Head(params).Value ELSE strategy)

RECURSIVE StrategyOfStanzas(_, _)
StrategyOfStanzas(stanzas, strategy) ==
    IF stanzas = <<>> THEN strategy
    ELSE StrategyOfStanzas(Tail(stanzas),
                           StrategyOfParams(Head(stanzas).Params, strategy))

getStrategy(cfg) ==
    LET strategy == StrategyOfStanzas(cfg.Stanzas, "")
    IN  [fatal |-> strategy = "", strategy |-> strategy]

(***************************************************************************)
(* getReaderStrategy, lines 120-129.                                       *)
(***************************************************************************)
NoReader == [kind |-> "nil", startTime |-> 0, endTime |-> 0]

getReaderStrategy(cfg, st, et) ==
    LET s == getStrategy(cfg)
    IN  IF s.fatal THEN [fatal |-> TRUE, err |-> FALSE, reader |-> NoReader]
        ELSE IF s.strategy = STRATEGY_GOOGLE
        THEN [fatal |-> FALSE, err |-> FALSE,
              reader |-> [kind |-> "GoogleFitnessReader",
                          startTime |-> st, endTime |-> et]]
        ELSE [fatal |-> FALSE, err |-> TRUE, reader |-> NoReader]

(***************************************************************************)
(* getCheckPointPath, lines 283-288: Stanzas[0].StanzaName split on "://", *)
(* element 1 joined to the checkpoint directory.  A missing stanza or a    *)
(* name without "://" is an index out of range: a panic.                   *)
(***************************************************************************)
getCheckPointPath(cfg) ==
    IF Len(cfg.Stanzas) = 0 THEN [panic |-> TRUE, path |-> <<>>]
    ELSE LET fileName == Split(cfg.Stanzas[1].StanzaName, SCHEME_SEP)
         IN  IF Len(fileName) < 2 THEN [panic |-> TRUE, path |-> <<>>]
             ELSE [panic |-> FALSE,
                   path |-> PathJoin(cfg.CheckpointDir, fileName[2])]

(***************************************************************************)
(* The secure store (storage/passwords): entries with an ID and an ordered *)
(* list of keys.  An ID is a sequence of tokens, so that strings.Contains  *)
(* is a search and not a flag.                                             *)
(***************************************************************************)
Key(n, v) == [Name |-> n, Value |-> v]

UserEntry(realm, user, json) ==
    [ID |-> <<realm, ":", user, ":">>,
     Keys |-> <<Key("clear_password", json), Key("realm", realm),
                Key("username", user)>>]

AppEntry ==
    [ID |-> <<"", ":", "cid", ".", "apps.googleusercontent.com", ":">>,
     Keys |-> <<Key("clear_password", "appsecret"), Key("realm", ""),
                Key("username", "cid")>>]

\* the entries a store of this model is made of
EntryPool ==
    { UserEntry(STRATEGY_GOOGLE, "u1", "jsonA"),
      UserEntry(STRATEGY_GOOGLE, "u2", "jsonB"),
      UserEntry(STRATEGY_GOOGLE, "u3", "{malformed"),
      UserEntry(STRATEGY_FITBIT, "u4", "jsonC"),
      UserEntry("Unknown", "u5", "jsonD"),
      AppEntry }

RECURSIVE SeqsUpTo(_, _)
SeqsUpTo(S, n) ==
    IF n = 0 THEN {<<>>}
    ELSE LET shorter == SeqsUpTo(S, n - 1)
         IN  shorter \cup {Append(q, x) : q \in shorter, x \in S}

Stores == SeqsUpTo(EntryPool, MaxEntries)

(***************************************************************************)
(* The stored token payload and its decoding (getTokens, lines 221-229):   *)
(* json.Decoder.Decode into tokenData fails on text that is no JSON value, *)
(* the empty text included.                                                *)
(***************************************************************************)
TokenData(a, r, ty, e) ==
    [err |-> FALSE, AccessToken |-> a, RefreshToken |-> r, TokenType |-> ty,
     Expires |-> e]

JsonDecode(text) ==
    CASE text = "jsonA" -> TokenData("accA", "refA", "Bearer", "expA")
      [] text = "jsonB" -> TokenData("accB", "refB", "Bearer", "expB")
      [] text = "jsonC" -> TokenData("accC", "refC", "Bearer", "expC")
      [] text = "jsonD" -> TokenData("accD", "refD", "Bearer", "expD")
      [] OTHER -> [err |-> TRUE, AccessToken |-> "", RefreshToken |-> "",
                   TokenType |-> "", Expires |-> ""]

\* newToken(refresh, access, expires, tokenType): the oauth2.Token of line 233
newToken(refresh, access, expires, tokenType) ==
    [AccessToken |-> access, RefreshToken |-> refresh, TokenType |-> tokenType,
     Expiry |-> expires]

\* getClient(token, clientId, clientSecret), line 105
getClient(token, id, secret) ==
    [token |-> token, ClientID |-> id, ClientSecret |-> secret]

(***************************************************************************)
(* getTokens, lines 198-236, on the entries the query returned.            *)
(* ScanKeys is the inner loop over entry.Contents.Keys with its switch:    *)
(* the realm case calls getStrategy, which dies on an empty strategy.      *)
(***************************************************************************)
\* ScanKeys with the realm's value never compared: any realm key marks
\* the entry
RECURSIVE ScanKeysAnyRealm(_, _, _)
ScanKeysAnyRealm(keys, cfg, st) ==
    IF keys = <<>> \/ st.fatal THEN st
    ELSE LET key == Head(keys)
         IN  IF key.Name = "clear_password"
             THEN ScanKeysAnyRealm(Tail(keys), cfg,
                                   [st EXCEPT !.tokenJSON = key.Value])
             ELSE IF key.Name = "realm"
             THEN IF getStrategy(cfg).fatal
                  THEN [st EXCEPT !.fatal = TRUE]
                  ELSE ScanKeysAnyRealm(Tail(keys), cfg,
                                        [st EXCEPT !.isForStrategy = TRUE])
             ELSE ScanKeysAnyRealm(Tail(keys), cfg, st)

RECURSIVE ScanKeys(_, _, _)
ScanKeys(keys, cfg, st) ==
    IF keys = <<>> \/ st.fatal THEN st
    ELSE LET key == Head(keys)
         IN  IF key.Name = "clear_password"
             THEN ScanKeys(Tail(keys), cfg, [st EXCEPT !.tokenJSON = key.Value])
             ELSE IF key.Name = "realm"
             THEN IF getStrategy(cfg).fatal
                  THEN [st EXCEPT !.fatal = TRUE]
                  ELSE IF key.Value = getStrategy(cfg).strategy
                  THEN ScanKeys(Tail(keys), cfg, [st EXCEPT !.isForStrategy = TRUE])
                  ELSE ScanKeys(Tail(keys), cfg, st)
             ELSE ScanKeys(Tail(keys), cfg, st)

RECURSIVE TokensOfEntries(_, _, _)
TokensOfEntries(entries, cfg, result) ==
    IF entries = <<>> THEN [fatal |-> "", result |-> result]
    ELSE LET st == ScanKeys(Head(entries).Keys, cfg,
                            [tokenJSON |-> "", isForStrategy |-> FALSE,
                             fatal |-> FALSE])
             temp == JsonDecode(st.tokenJSON)
         IN  IF st.fatal THEN [fatal |-> "noStrategy", result |-> result]
             ELSE IF st.isForStrategy
             THEN IF temp.err THEN [fatal |-> "decode", result |-> result]
                  ELSE TokensOfEntries(Tail(entries), cfg,
                           Append(result,
                                  newToken(temp.RefreshToken, temp.AccessToken,
                                           temp.Expires, temp.TokenType)))
             ELSE TokensOfEntries(Tail(entries), cfg, result)

getTokens(entries, cfg) == TokensOfEntries(entries, cfg, <<>>)

(***************************************************************************)
(* getAppCredentials, lines 163-182, on the entries the query returned:    *)
(* the last entry whose ID contains the marker decides each value.         *)
(***************************************************************************)
RECURSIVE AppKeys(_, _)
AppKeys(keys, acc) ==
    IF keys = <<>> THEN acc
    ELSE LET key == Head(keys)
             a1 == IF key.Name = "clear_password"
                   THEN [acc EXCEPT !.clientSecret = key.Value] ELSE acc
             a2 == IF key.Name = "username"
                   THEN [a1 EXCEPT !.clientId = key.Value] ELSE a1
         IN  AppKeys(Tail(keys), a2)

RECURSIVE AppCredentialsOf(_, _)
AppCredentialsOf(entries, acc) ==
    IF entries = <<>> THEN acc
    ELSE AppCredentialsOf(Tail(entries),
                          IF Contains(Head(entries).ID, APP_ID_MARKER)
                          THEN AppKeys(Head(entries).Keys, acc) ELSE acc)

getAppCredentials(entries) ==
    AppCredentialsOf(entries, [clientId |-> "", clientSecret |-> ""])

(***************************************************************************)
(* The checkpoint file: time.Time.GobEncode / GobDecode (lines 254, 273).  *)
(* The encoding is the 15 bytes of Time.MarshalBinary: a version byte, the *)
(* instant as 8 big-endian bytes, 4 bytes of nanoseconds and 2 bytes of    *)
(* zone offset (-1: UTC).  Instants of the model lie within 32 bits, so    *)
(* the four high bytes are the sign extension.                             *)
(***************************************************************************)
\* byte k (0 = least significant) of the two's complement of x
ByteOf(x, k) ==
    IF k = 0 THEN x % 256
    ELSE IF k = 1 THEN (x \div 256) % 256
    ELSE IF k = 2 THEN (x \div 65536) % 256
    ELSE IF k = 3 THEN (x \div 16777216) % 256
    ELSE IF x < 0 THEN 255 ELSE 0

BigEndian(x, n) == [i \in 1..n |-> ByteOf(x, n - i)]

GobEncode(t) ==
    [err |-> FALSE,
     data |-> <<1>> \o BigEndian(t, 8) \o BigEndian(0, 4)
              \o BigEndian(-1, 2)]

\* a decoder that reads the three low bytes of the seconds only
GobDecode24Bit(buf) ==
    IF Len(buf) = 0 THEN [err |-> TRUE, t |-> 0]
    ELSE IF buf[1] # 1 THEN [err |-> TRUE, t |-> 0]
    ELSE IF Len(buf) # 15 THEN [err |-> TRUE, t |-> 0]
    ELSE [err |-> FALSE,
          t |-> buf[9] + 256 * buf[8] + 65536 * buf[7]
                - (IF buf[2] >= 128 THEN 16777216 ELSE 0)]

GobDecode(buf) ==
    IF Len(buf) = 0 THEN [err |-> TRUE, t |-> 0]
    ELSE IF buf[1] # 1 THEN [err |-> TRUE, t |-> 0]
    ELSE IF Len(buf) # 15 THEN [err |-> TRUE, t |-> 0]
    ELSE [err |-> FALSE,
          t |-> buf[9] + 256 * buf[8] + 65536 * buf[7]
                + 16777216 * (buf[6] - (IF buf[2] >= 128 THEN 256 ELSE 0))]

Absent == [exists |-> FALSE, data |-> <<>>]
FileOf(bytes) == [exists |-> TRUE, data |-> bytes]

\* what the checkpoint file may hold before the first run of the model
InitialFiles == {Absent, FileOf(<<2, 0>>)}

Paths == {getCheckPointPath(c).path : c \in RunConfigs}

\* readCheckPoint with the margin subtracted from a decoded checkpoint too
readCheckPointAlwaysMargin(file, n) ==
    IF ~file.exists THEN [t |-> n, err |-> "read"]
    ELSE IF GobDecode(file.data).err
    THEN [t |-> n - FallbackMargin, err |-> "decode"]
    ELSE [t |-> GobDecode(file.data).t - FallbackMargin, err |-> ""]

(***************************************************************************)
(* readCheckPoint, lines 266-279, on the file's content at time n.         *)
(***************************************************************************)
readCheckPoint(file, n) ==
    IF ~file.exists THEN [t |-> n, err |-> "read"]
    ELSE IF GobDecode(file.data).err
    THEN [t |-> n - FallbackMargin, err |-> "decode"]
    ELSE [t |-> GobDecode(file.data).t, err |-> ""]

\* getTimes with the checkpoint taken for the end of the window, as its
\* comment has it
getTimesSwapped(rc, n1, n2) ==
    [startTime |-> n2, endTime |-> IF rc.err # "" THEN n1 ELSE rc.t]

\* a getTimes that opens every window at the current time
getTimesFromNow(rc, n1, n2) ==
    [startTime |-> n1, endTime |-> n2]

(***************************************************************************)
(* getTimes, lines 242-249: rc is readCheckPoint's result, n1 and n2 the   *)
(* clock at the two time.Now() calls.                                      *)
(***************************************************************************)
getTimes(rc, n1, n2) ==
    [startTime |-> IF rc.err # "" THEN n1 ELSE rc.t, endTime |-> n2]

(***************************************************************************)
(* FitnessReader.getData: the timestamps a successful fetch over the       *)
(* window may return, the window's end being the typical one.              *)
(***************************************************************************)
getDataResults(reader) ==
    IF reader.startTime <= reader.endTime
    THEN reader.startTime .. reader.endTime
    ELSE {reader.endTime}

(***************************************************************************)
(* State.                                                                  *)
(***************************************************************************)
VARIABLES
    config,        \* input.ModInputConfig
    validation,    \* outcome of ValidateScheme: "none", "accepted", "rejected"
    store,         \* entries of storage/passwords during the current run
    files,         \* checkpoint directory: path -> file content
    now,           \* the clock
    runs,          \* runs started so far
    pc,            \* position of the run in StreamEvents
    failReason,    \* why the run died
    tokens,        \* result of getTokens
    idx,           \* index of the token the loop is at (1-based)
    appCreds,      \* clientId, clientSecret of line 104
    client,        \* client of line 105
    rc,            \* result of readCheckPoint
    startTime,     \* line 108
    endTime,       \* line 108
    fitnessReader, \* line 111
    retTime,       \* value returned by getData
    inFlight,      \* fetches begun and not yet returned
    trace,         \* visible steps of the current run
    history,       \* checkpoints written so far: the last and the latest
    peer           \* a second process of the input, run while the first is
                   \* under way (unused when the host serializes the runs)

vars == <<config, validation, store, files, now, runs, pc, failReason, tokens,
          idx, appCreds, client, rc, startTime, endTime, fitnessReader,
          retTime, inFlight, trace, history, peer>>

NoCreds == [clientId |-> "", clientSecret |-> ""]
NoToken == newToken("", "", "", "")
NoClient == getClient(NoToken, "", "")
NoRc == [t |-> 0, err |-> ""]

Event(op, t) == [op |-> op, t |-> t]

NoHistory == [any |-> FALSE, last |-> 0, max |-> 0]

\* the history after a checkpoint t has been written
Wrote(h, t) ==
    [any |-> TRUE, last |-> t, max |-> IF h.any /\ h.max > t THEN h.max ELSE t]

NoPeer == [pc |-> "idle", rc |-> NoRc, startTime |-> 0, endTime |-> 0,
           retTime |-> 0]

Init ==
    /\ config \in RunConfigs
    /\ validation = "none"
    /\ store = <<>>
    /\ \E f \in InitialFiles :
          files = [p \in Paths |->
                      IF p = getCheckPointPath(config).path THEN f ELSE Absent]
    /\ now = 0
    /\ runs = 0
    /\ pc = "idle"
    /\ failReason = ""
    /\ tokens = <<>>
    /\ idx = 0
    /\ appCreds = NoCreds
    /\ client = NoClient
    /\ rc = NoRc
    /\ startTime = 0
    /\ endTime = 0
    /\ fitnessReader = NoReader
    /\ retTime = 0
    /\ inFlight = 0
    /\ trace = <<>>
    /\ history = NoHistory
    /\ peer = NoPeer

\* log.Fatal, or a panic: the process exits
Die(reason) ==
    /\ pc' = "failed"
    /\ failReason' = reason
    /\ inFlight' = 0

\* a loop that tests its condition after the body
LoopAtLeastOnce(toks, i) ==
    IF i > Len(toks) /\ i > 1 THEN "done" ELSE "getAppCredentials"

\* the head of the loop of line 102 over toks, at token i
LoopAt(toks, i) == IF i > Len(toks) THEN "done" ELSE "getAppCredentials"

(***************************************************************************)
(* The host.                                                               *)
(***************************************************************************)
\* the input run with --validate-arguments: ValidateScheme, lines 65-84
Validate ==
    /\ pc = "idle"
    /\ validation = "none"
    /\ validation' = IF ValidateScheme(config).ok THEN "accepted" ELSE "rejected"
    /\ UNCHANGED <<peer, history, config, store, files, now, runs, pc, failReason, tokens, idx,
                   appCreds, client, rc, startTime, endTime, fitnessReader,
                   retTime, inFlight, trace>>

\* time passes between two runs
Tick ==
    /\ pc = "idle"
    /\ now < MaxTime
    /\ now' = now + 1
    /\ UNCHANGED <<peer, history, config, validation, store, files, runs, pc, failReason,
                   tokens, idx, appCreds, client, rc, startTime, endTime,
                   fitnessReader, retTime, inFlight, trace>>

\* the scheduler starts a run of the validated stanza when no run is under
\* way; StreamEvents, lines 88-92.  (A stanza that validation rejected can
\* still be run: inputs.conf can be written without it.)
StartRun ==
    /\ pc = "idle"
    /\ validation # "none"
    /\ runs < MaxRuns
    /\ runs' = runs + 1
    /\ store' \in Stores
    /\ pc' = "getTokens"
    /\ UNCHANGED <<peer, history, config, validation, files, now, failReason, tokens, idx,
                   appCreds, client, rc, startTime, endTime, fitnessReader,
                   retTime, inFlight, trace>>

\* the process of a finished run is gone: StreamEvents has returned
\* (line 118) or log.Fatal has exited
EndRun ==
    /\ pc \in {"done", "failed"}
    /\ pc' = "idle"
    /\ store' = <<>>
    /\ failReason' = ""
    /\ tokens' = <<>>
    /\ idx' = 0
    /\ appCreds' = NoCreds
    /\ client' = NoClient
    /\ rc' = NoRc
    /\ startTime' = 0
    /\ endTime' = 0
    /\ fitnessReader' = NoReader
    /\ retTime' = 0
    /\ inFlight' = 0
    /\ trace' = <<>>
    /\ UNCHANGED <<peer, history, config, validation, files, now, runs>>

(***************************************************************************)
(* StreamEvents, lines 100-117, one action per call.                       *)
(***************************************************************************)
\* line 100, getTokens: the query of lines 188-192 succeeds
GetTokens ==
    /\ pc = "getTokens"
    /\ trace' = Append(trace, Event("query:getTokens", 0))
    /\ LET r == getTokens(store, config)
       IN  IF r.fatal # ""
           THEN /\ Die(r.fatal)
                /\ UNCHANGED <<tokens, idx>>
           ELSE /\ tokens' = r.result
                /\ idx' = 1
                /\ pc' = LoopAt(r.result, 1)
                /\ UNCHANGED <<failReason, inFlight>>
    /\ UNCHANGED <<peer, history, config, validation, store, files, now, runs, appCreds,
                   client, rc, startTime, endTime, fitnessReader, retTime>>

\* line 100, getTokens: the query fails, lines 194-196
GetTokensQueryFails ==
    /\ pc = "getTokens"
    /\ trace' = Append(trace, Event("query:getTokens", 0))
    /\ Die("storeQuery")
    /\ UNCHANGED <<peer, history, config, validation, store, files, now, runs, tokens, idx,
                   appCreds, client, rc, startTime, endTime, fitnessReader,
                   retTime>>

\* line 104, getAppCredentials: the query of lines 152-156 succeeds
GetAppCredentials ==
    /\ pc = "getAppCredentials"
    /\ trace' = Append(trace, Event("query:getAppCredentials", 0))
    /\ appCreds' = getAppCredentials(store)
    /\ pc' = "getClient"
    /\ UNCHANGED <<peer, history, config, validation, store, files, now, runs, failReason,
                   tokens, idx, client, rc, startTime, endTime, fitnessReader,
                   retTime, inFlight>>

\* line 104, getAppCredentials: the query fails, lines 158-161
GetAppCredentialsQueryFails ==
    /\ pc = "getAppCredentials"
    /\ trace' = Append(trace, Event("query:getAppCredentials", 0))
    /\ Die("storeQuery")
    /\ UNCHANGED <<peer, history, config, validation, store, files, now, runs, tokens, idx,
                   appCreds, client, rc, startTime, endTime, fitnessReader,
                   retTime>>

\* line 105
GetClient ==
    /\ pc = "getClient"
    /\ client' = getClient(tokens[idx], appCreds.clientId, appCreds.clientSecret)
    /\ trace' = Append(trace, Event("getClient", 0))
    /\ pc' = "readCheckPoint"
    /\ UNCHANGED <<peer, history, config, validation, store, files, now, runs, failReason,
                   tokens, idx, appCreds, rc, startTime, endTime, fitnessReader,
                   retTime, inFlight>>

\* a read of the checkpoint that ends the run when the file is missing
ReadCheckPointFatal ==
    /\ pc = "readCheckPoint"
    /\ LET p == getCheckPointPath(config)
       IN  IF p.panic
           THEN /\ Die("panic")
                /\ UNCHANGED <<rc, trace>>
           ELSE IF ~files[p.path].exists
           THEN /\ Die("checkpointRead")
                /\ UNCHANGED <<rc, trace>>
           ELSE /\ rc' = readCheckPoint(files[p.path], now)
                /\ trace' = Append(trace, Event("readCheckPoint", rc'.t))
                /\ pc' = "getTimes"
                /\ UNCHANGED <<failReason, inFlight>>
    /\ UNCHANGED <<peer, history, config, validation, store, files, now, runs,
                   tokens, idx, appCreds, client, startTime, endTime,
                   fitnessReader, retTime>>

\* a read of the checkpoint made for the first credential only, its result
\* kept for the rest of the run
ReadCheckPointCached ==
    /\ pc = "readCheckPoint"
    /\ LET p == getCheckPointPath(config)
       IN  IF p.panic
           THEN /\ Die("panic")
                /\ UNCHANGED <<rc, trace>>
           ELSE /\ rc' = IF idx = 1 THEN readCheckPoint(files[p.path], now)
                         ELSE rc
                /\ trace' = Append(trace, Event("readCheckPoint", rc'.t))
                /\ pc' = "getTimes"
                /\ UNCHANGED <<failReason, inFlight>>
    /\ UNCHANGED <<peer, history, config, validation, store, files, now, runs,
                   tokens, idx, appCreds, client, startTime, endTime,
                   fitnessReader, retTime>>

\* line 108, getTimes, its call of readCheckPoint (line 243)
ReadCheckPoint ==
    /\ pc = "readCheckPoint"
    /\ LET p == getCheckPointPath(config)
       IN  IF p.panic
           THEN /\ Die("panic")
                /\ UNCHANGED <<rc, trace>>
           ELSE /\ rc' = readCheckPoint(files[p.path], now)
                /\ trace' = Append(trace, Event("readCheckPoint", rc'.t))
                /\ pc' = "getTimes"
                /\ UNCHANGED <<failReason, inFlight>>
    /\ UNCHANGED <<peer, history, config, validation, store, files, now, runs, tokens, idx,
                   appCreds, client, startTime, endTime, fitnessReader, retTime>>

\* line 108, getTimes, lines 244-248; d is the time between the two
\* time.Now() calls
GetTimes ==
    /\ pc = "getTimes"
    /\ \E d \in 0..1 :
          /\ now + d <= MaxTime
          /\ now' = now + d
          /\ startTime' = getTimes(rc, now, now + d).startTime
          /\ endTime' = getTimes(rc, now, now + d).endTime
    /\ pc' = "getReaderStrategy"
    /\ UNCHANGED <<peer, history, config, validation, store, files, runs, failReason, tokens,
                   idx, appCreds, client, rc, fitnessReader, retTime, inFlight,
                   trace>>

\* lines 111-114
GetReaderStrategy ==
    /\ pc = "getReaderStrategy"
    /\ LET r == getReaderStrategy(config, startTime, endTime)
       IN  IF r.fatal THEN /\ Die("noStrategy")
                           /\ UNCHANGED fitnessReader
           ELSE IF r.err THEN /\ Die("unsupported")
                              /\ UNCHANGED fitnessReader
           ELSE /\ fitnessReader' = r.reader
                /\ pc' = "getData"
                /\ UNCHANGED <<failReason, inFlight>>
    /\ UNCHANGED <<peer, history, config, validation, store, files, now, runs, tokens, idx,
                   appCreds, client, rc, startTime, endTime, retTime, trace>>

\* line 116: fitnessReader.getData is called
GetDataBegin ==
    /\ pc = "getData"
    /\ inFlight' = inFlight + 1
    /\ pc' = "inGetData"
    /\ UNCHANGED <<peer, history, config, validation, store, files, now, runs, failReason,
                   tokens, idx, appCreds, client, rc, startTime, endTime,
                   fitnessReader, retTime, trace>>

\* line 116: getData has written its records and returns a timestamp;
\* d is the time the fetch took
GetDataReturn ==
    /\ pc = "inGetData"
    /\ \E d \in 0..1 :
          /\ now + d <= MaxTime
          /\ now' = now + d
    /\ \E t \in getDataResults(fitnessReader) :
          /\ retTime' = t
          /\ trace' = Append(trace, Event("getData", t))
    /\ inFlight' = inFlight - 1
    /\ pc' = "writeCheckPoint"
    /\ UNCHANGED <<peer, history, config, validation, store, files, runs, failReason, tokens,
                   idx, appCreds, client, rc, startTime, endTime, fitnessReader>>

\* line 116: the fetch fails, which ends the run
GetDataFails ==
    /\ pc = "inGetData"
    /\ Die("fetch")
    /\ UNCHANGED <<peer, history, config, validation, store, files, now, runs, tokens, idx,
                   appCreds, client, rc, startTime, endTime, fitnessReader,
                   retTime, trace>>

\* WriteCheckPoint storing the window's end instead of what getData returned
WriteCheckPointEndTime ==
    /\ pc = "writeCheckPoint"
    /\ ~getCheckPointPath(config).panic
    /\ files' = [files EXCEPT ![getCheckPointPath(config).path] =
                                  FileOf(GobEncode(endTime).data)]
    /\ trace' = Append(trace, Event("writeCheckPoint", endTime))
    /\ history' = Wrote(history, endTime)
    /\ idx' = idx + 1
    /\ pc' = LoopAt(tokens, idx + 1)
    /\ UNCHANGED <<peer, config, validation, store, now, runs, tokens, appCreds,
                   client, rc, startTime, endTime, fitnessReader, retTime,
                   failReason, inFlight>>

\* line 116, writeCheckPoint, lines 251-264, and the loop's next round
WriteCheckPoint ==
    /\ pc = "writeCheckPoint"
    /\ LET p == getCheckPointPath(config)
           g == GobEncode(retTime)
       IN  IF p.panic
           THEN /\ Die("panic")
                /\ UNCHANGED <<files, idx, trace, history>>
           ELSE IF g.err
           THEN /\ Die("checkpointWrite")
                /\ UNCHANGED <<files, idx, trace, history>>
           ELSE /\ files' = [files EXCEPT ![p.path] = FileOf(g.data)]
                /\ trace' = Append(trace, Event("writeCheckPoint", retTime))
                /\ history' = Wrote(history, retTime)
                /\ idx' = idx + 1
                /\ pc' = LoopAt(tokens, idx + 1)
                /\ UNCHANGED <<failReason, inFlight>>
    /\ UNCHANGED <<peer, config, validation, store, now, runs, tokens, appCreds,
                   client, rc, startTime, endTime, fitnessReader, retTime>>

\* lines 260-263: ioutil.WriteFile fails, leaving the file as it was (it
\* could not be opened) or truncated (opened, not written)
WriteCheckPointFails ==
    /\ pc = "writeCheckPoint"
    /\ ~getCheckPointPath(config).panic
    /\ \E truncated \in BOOLEAN :
          files' = IF truncated
                   THEN [files EXCEPT ![getCheckPointPath(config).path] =
                                          FileOf(<<>>)]
                   ELSE files
    /\ Die("checkpointWrite")
    /\ UNCHANGED <<peer, history, config, validation, store, now, runs, tokens, idx, appCreds,
                   client, rc, startTime, endTime, fitnessReader, retTime, trace>>

Next ==
    \/ Validate
    \/ Tick
    \/ StartRun
    \/ EndRun
    \/ GetTokens
    \/ GetTokensQueryFails
    \/ GetAppCredentials
    \/ GetAppCredentialsQueryFails
    \/ GetClient
    \/ ReadCheckPoint
    \/ GetTimes
    \/ GetReaderStrategy
    \/ GetDataBegin
    \/ GetDataReturn
    \/ GetDataFails
    \/ WriteCheckPoint
    \/ WriteCheckPointFails

Spec == Init /\ [][Next]_vars

(***************************************************************************)
(* Overlapping runs.  The host starts a second process of the same input   *)
(* while a run is under way; nothing in StreamEvents excludes it.  The     *)
(* second process is followed through its first credential, in the steps   *)
(* that read the clock or touch the checkpoint file: readCheckPoint and    *)
(* getTimes (line 108), getData and writeCheckPoint (line 116).  The run    *)
(* under way has one or two credentials stored for GoogleFitness, and no   *)
(* query, fetch or write fails.                                            *)
(***************************************************************************)
GoogleConfig ==
    ModInputConfig(<<Stanza(NameA, <<Param(STRATEGY_PARAM_NAME, STRATEGY_GOOGLE)>>)>>)

OverlapStores ==
    { <<UserEntry(STRATEGY_GOOGLE, "u1", "jsonA")>>,
      <<UserEntry(STRATEGY_GOOGLE, "u1", "jsonA"),
        UserEntry(STRATEGY_GOOGLE, "u2", "jsonB")>> }

\* the first process has been started: StartRun has been taken
InitOverlap ==
    /\ config = GoogleConfig
    /\ validation = "accepted"
    /\ store \in OverlapStores
    /\ \E f \in InitialFiles :
          files = [p \in Paths |->
                      IF p = getCheckPointPath(config).path THEN f ELSE Absent]
    /\ now = 0
    /\ runs = 1
    /\ pc = "getTokens"
    /\ failReason = ""
    /\ tokens = <<>>
    /\ idx = 0
    /\ appCreds = NoCreds
    /\ client = NoClient
    /\ rc = NoRc
    /\ startTime = 0
    /\ endTime = 0
    /\ fitnessReader = NoReader
    /\ retTime = 0
    /\ inFlight = 0
    /\ trace = <<>>
    /\ history = NoHistory
    /\ peer = NoPeer

\* lines 100-105 of the second process: it has a credential to fetch for
PeerStart ==
    /\ peer.pc = "idle"
    /\ pc \notin {"idle", "done", "failed"}
    /\ getTokens(store, config).fatal = ""
    /\ getTokens(store, config).result # <<>>
    /\ peer' = [peer EXCEPT !.pc = "readCheckPoint"]
    /\ UNCHANGED <<history, config, validation, store, files, now, runs, pc,
                   failReason, tokens, idx, appCreds, client, rc, startTime,
                   endTime, fitnessReader, retTime, inFlight, trace>>

\* a second process that waits for a lock the run holds from its read of
\* the checkpoint to its write
PeerReadCheckPointLocked ==
    /\ peer.pc = "readCheckPoint"
    /\ pc \notin {"getTimes", "getReaderStrategy", "getData", "inGetData",
                  "writeCheckPoint"}
    /\ peer' = [peer EXCEPT
                   !.rc = readCheckPoint(files[getCheckPointPath(config).path],
                                         now),
                   !.pc = "getTimes"]
    /\ UNCHANGED <<history, config, validation, store, files, now, runs, pc,
                   failReason, tokens, idx, appCreds, client, rc, startTime,
                   endTime, fitnessReader, retTime, inFlight, trace>>

\* line 243 of the second process
PeerReadCheckPoint ==
    /\ peer.pc = "readCheckPoint"
    /\ peer' = [peer EXCEPT
                   !.rc = readCheckPoint(files[getCheckPointPath(config).path],
                                         now),
                   !.pc = "getTimes"]
    /\ UNCHANGED <<history, config, validation, store, files, now, runs, pc,
                   failReason, tokens, idx, appCreds, client, rc, startTime,
                   endTime, fitnessReader, retTime, inFlight, trace>>

\* lines 244-248 of the second process
PeerGetTimes ==
    /\ peer.pc = "getTimes"
    /\ \E d \in 0..1 :
          /\ now + d <= MaxTime
          /\ now' = now + d
          /\ peer' = [peer EXCEPT
                         !.startTime = getTimes(peer.rc, now, now + d).startTime,
                         !.endTime = getTimes(peer.rc, now, now + d).endTime,
                         !.pc = "getData"]
    /\ UNCHANGED <<history, config, validation, store, files, runs, pc,
                   failReason, tokens, idx, appCreds, client, rc, startTime,
                   endTime, fitnessReader, retTime, inFlight, trace>>

\* line 116 of the second process: its fetch returns
PeerGetData ==
    /\ peer.pc = "getData"
    /\ \E d \in 0..1 :
          /\ now + d <= MaxTime
          /\ now' = now + d
    /\ \E t \in getDataResults(getReaderStrategy(config, peer.startTime,
                                                  peer.endTime).reader) :
          peer' = [peer EXCEPT !.retTime = t, !.pc = "writeCheckPoint"]
    /\ UNCHANGED <<history, config, validation, store, files, runs, pc,
                   failReason, tokens, idx, appCreds, client, rc, startTime,
                   endTime, fitnessReader, retTime, inFlight, trace>>

\* line 116 of the second process: writeCheckPoint, lines 251-264
PeerWriteCheckPoint ==
    /\ peer.pc = "writeCheckPoint"
    /\ files' = [files EXCEPT ![getCheckPointPath(config).path] =
                                  FileOf(GobEncode(peer.retTime).data)]
    /\ history' = Wrote(history, peer.retTime)
    /\ peer' = [peer EXCEPT !.pc = "done"]
    /\ UNCHANGED <<config, validation, store, now, runs, pc, failReason,
                   tokens, idx, appCreds, client, rc, startTime, endTime,
                   fitnessReader, retTime, inFlight, trace>>

NextOverlap ==
    \/ GetTokens
    \/ GetAppCredentials
    \/ GetClient
    \/ ReadCheckPoint
    \/ GetTimes
    \/ GetReaderStrategy
    \/ GetDataBegin
    \/ GetDataReturn
    \/ WriteCheckPoint
    \/ PeerStart
    \/ PeerReadCheckPoint
    \/ PeerGetTimes
    \/ PeerGetData
    \/ PeerWriteCheckPoint

SpecOverlap == InitOverlap /\ [][NextOverlap]_vars

(***************************************************************************)
(* The checkpoint round trip: writeCheckPoint (lines 251-264) applied to a *)
(* timestamp and no error, then readCheckPoint (lines 266-279), on the     *)
(* checkpoint file of one instance.  The timestamps are the instants       *)
(* around the epoch and around every power of two up to 2^MaxExp, on both  *)
(* sides of the epoch.                                                     *)
(***************************************************************************)
TestTimes ==
    (0..MaxTime)
    \cup UNION {{2^k - 1, 2^k, 2^k + 1, 1 - 2^k, -(2^k), -(2^k) - 1} :
                   k \in 0..MaxExp}

\* the configurations whose instance has a checkpoint path
PathConfigs == {c \in RunConfigs : ~getCheckPointPath(c).panic}

\* the file before the write: absent, corrupt, or left by an earlier write
RoundTripFiles == InitialFiles \cup {FileOf(GobEncode(t).data) : t \in 0..MaxTime}

InitRoundTrip ==
    /\ config \in PathConfigs
    /\ validation = "none"
    /\ store = <<>>
    /\ \E f \in RoundTripFiles :
          /\ files = [p \in Paths |->
                         IF p = getCheckPointPath(config).path THEN f
                         ELSE Absent]
          /\ history = IF f.exists /\ ~GobDecode(f.data).err
                       THEN Wrote(NoHistory, GobDecode(f.data).t)
                       ELSE NoHistory
    /\ now \in 0..MaxTime
    /\ runs = 0
    /\ pc = "roundTrip:write"
    /\ failReason = ""
    /\ tokens = <<>>
    /\ idx = 0
    /\ appCreds = NoCreds
    /\ client = NoClient
    /\ rc = NoRc
    /\ startTime = 0
    /\ endTime = 0
    /\ fitnessReader = NoReader
    /\ retTime \in TestTimes
    /\ inFlight = 0
    /\ trace = <<>>
    /\ peer = NoPeer

\* writeCheckPoint(retTime, nil), the file written: lines 252-263
RoundTripWrite ==
    /\ pc = "roundTrip:write"
    /\ LET p == getCheckPointPath(config)
           g == GobEncode(retTime)
       IN  IF p.panic \/ g.err
           THEN /\ Die(IF p.panic THEN "panic" ELSE "checkpointWrite")
                /\ UNCHANGED <<files, history>>
           ELSE /\ files' = [files EXCEPT ![p.path] = FileOf(g.data)]
                /\ history' = Wrote(history, retTime)
                /\ pc' = "roundTrip:read"
                /\ UNCHANGED <<failReason, inFlight>>
    /\ UNCHANGED <<peer, config, validation, store, now, runs, tokens, idx,
                   appCreds, client, rc, startTime, endTime, fitnessReader,
                   retTime, trace>>

\* readCheckPoint on the same instance: lines 266-279
RoundTripRead ==
    /\ pc = "roundTrip:read"
    /\ LET p == getCheckPointPath(config)
       IN  IF p.panic
           THEN /\ Die("panic")
                /\ UNCHANGED rc
           ELSE /\ rc' = readCheckPoint(files[p.path], now)
                /\ pc' = "roundTrip:done"
                /\ UNCHANGED <<failReason, inFlight>>
    /\ UNCHANGED <<peer, history, config, validation, store, files, now, runs,
                   tokens, idx, appCreds, client, startTime, endTime,
                   fitnessReader, retTime, trace>>

NextRoundTrip ==
    \/ RoundTripWrite
    \/ RoundTripRead

SpecRoundTrip == InitRoundTrip /\ [][NextRoundTrip]_vars

(***************************************************************************)
(* Vocabulary of the properties.                                           *)
(***************************************************************************)
HasEvent(op) == \E i \in 1..Len(trace) : trace[i].op = op

IsQuery(e) == e.op \in {"query:getTokens", "query:getAppCredentials"}

QueryMade == \E i \in 1..Len(trace) : IsQuery(trace[i])

\* the timestamps of the events op of the current run, in order
RECURSIVE TimesOf(_, _)
TimesOf(tr, op) ==
    IF tr = <<>> THEN <<>>
    ELSE IF Head(tr).op = op THEN <<Head(tr).t>> \o TimesOf(Tail(tr), op)
    ELSE TimesOf(Tail(tr), op)

Fetched == TimesOf(trace, "getData")
Written == TimesOf(trace, "writeCheckPoint")

ConfiguredProvider == getStrategy(config).strategy

\* the checkpoint file of the configured instance
CheckPointFile == files[getCheckPointPath(config).path]
\* that file after a step
CheckPointFileNext == files'[getCheckPointPath(config).path]
Readable(f) == f.exists /\ ~GobDecode(f.data).err

\* an entry's realm attribute is p
HasRealm(e, p) ==
    \E k \in 1..Len(e.Keys) : e.Keys[k].Name = "realm" /\ e.Keys[k].Value = p

\* an entry's secret
SecretOf(e) ==
    LET ks == {k \in 1..Len(e.Keys) : e.Keys[k].Name = "clear_password"}
    IN  IF ks = {} THEN ""
        ELSE e.Keys[CHOOSE k \in ks : \A j \in ks : j <= k].Value

IsRealmEntry(e) == HasRealm(e, ConfiguredProvider)
IsUsableEntry(e) == IsRealmEntry(e) /\ ~JsonDecode(SecretOf(e)).err

\* the run ended for a reason outside configuration and store content
EnvironmentFailure ==
    pc = "failed" /\ failReason \in {"storeQuery", "fetch", "checkpointWrite"}

(***************************************************************************)
(* C1.  A run whose provider selection is unknown or missing fails with a  *)
(* configuration error before any credential-store query: no run makes a   *)
(* store query and then fails on the unsupported or missing provider.      *)
(***************************************************************************)
C1_NoQueryBeforeProviderFailure ==
    (/\ ConfiguredProvider \notin KnownProviders
     /\ pc = "failed"
     /\ failReason \in {"unsupported", "noStrategy"})
    => ~QueryMade

(***************************************************************************)
(* C2.  When the checkpoint file exists and cannot be decoded, the window  *)
(* handed to the strategy starts at the time readCheckPoint returned, the  *)
(* fallback margin before now.                                             *)
(***************************************************************************)
C2_CorruptCheckpointWidensWindow ==
    (pc \in {"getReaderStrategy", "getData", "inGetData", "writeCheckPoint"}
     /\ rc.err = "decode")
    => (startTime = rc.t /\ startTime <= endTime - FallbackMargin)

(***************************************************************************)
(* C3.  For a provider that validation accepts and a store with N entries  *)
(* of its realm, all with valid payloads, a run that meets no environment  *)
(* failure completes having invoked the strategy N times.                  *)
(***************************************************************************)
C3_KnownProviderProcessesAllCredentials ==
    (/\ pc \in {"done", "failed"}
     /\ ~EnvironmentFailure
     /\ ConfiguredProvider \in KnownProviders
     /\ ValidateScheme(config).ok
     /\ ~getCheckPointPath(config).panic
     /\ \A i \in 1..Len(store) : IsRealmEntry(store[i]) => IsUsableEntry(store[i]))
    => (/\ pc = "done"
        /\ Len(Fetched) = Len(SelectSeq(store, IsRealmEntry)))

(***************************************************************************)
(* C4.  The stored checkpoint is monotonic: a checkpoint written by        *)
(* writeCheckPoint over a readable checkpoint is not earlier than it.      *)
(***************************************************************************)
C4_CheckpointMonotonic ==
    [][(/\ pc = "writeCheckPoint"
        /\ pc' \in {"done", "getAppCredentials"}
        /\ Readable(CheckPointFile))
       => (/\ Readable(CheckPointFileNext)
           /\ GobDecode(CheckPointFileNext.data).t
                 >= GobDecode(CheckPointFile.data).t)]_vars

\* a second run has overwritten the first run's checkpoint with a later one
C4_Witness ==
    /\ pc = "done"
    /\ runs = 2
    /\ rc.err = ""
    /\ Len(Written) >= 1
    /\ Readable(CheckPointFile)
    /\ GobDecode(CheckPointFile.data).t > rc.t

(***************************************************************************)
(* C5.  Every fetch window computed by getTimes and handed to a strategy   *)
(* has startTime <= endTime.                                               *)
(***************************************************************************)
C5_WindowStartNotAfterEnd ==
    /\ pc \in {"getReaderStrategy", "getData", "inGetData", "writeCheckPoint"}
          => startTime <= endTime
    /\ fitnessReader.kind # "nil"
          => fitnessReader.startTime <= fitnessReader.endTime

\* a strategy holds a window that starts at an earlier run's checkpoint
C5_Witness ==
    /\ pc = "getData"
    /\ runs = 2
    /\ rc.err = ""
    /\ fitnessReader.startTime = rc.t
    /\ fitnessReader.startTime < fitnessReader.endTime

(***************************************************************************)
(* C6.  Within a run a checkpoint is written only after the fetch for the  *)
(* same credential has returned, at most one fetch is in progress, the     *)
(* k-th write carries the timestamp the k-th fetch returned, and a failed  *)
(* fetch gets no checkpoint.                                               *)
(***************************************************************************)
C6_WriteFollowsItsFetch ==
    /\ inFlight <= 1
    /\ pc = "writeCheckPoint" => inFlight = 0
    /\ Len(Written) <= Len(Fetched)
    /\ \A k \in 1..Len(Written) : Written[k] = Fetched[k]
    /\ \A i \in 1..Len(trace) :
          trace[i].op = "writeCheckPoint"
          => (i > 1 /\ trace[i - 1].op = "getData" /\ trace[i - 1].t = trace[i].t)
    /\ (pc = "failed" /\ failReason = "fetch")
          => (Len(Written) = idx - 1 /\ Len(Fetched) = idx - 1)

\* the second credential's checkpoint has been written, and the two
\* fetches returned different timestamps
C6_Witness ==
    /\ pc = "done"
    /\ Len(Written) = 2
    /\ Written[1] # Written[2]
    /\ Written[2] < endTime

(***************************************************************************)
(* C7.  ValidateScheme accepts a configuration only if every stanza has    *)
(* exactly one FitnessService parameter, with a known provider as value.   *)
(***************************************************************************)
C7_ValidationRequiresOneKnownProvider ==
    validation = "accepted"
    => \A i \in 1..Len(config.Stanzas) :
          LET ps == config.Stanzas[i].Params
              sel == {k \in 1..Len(ps) : ps[k].Name = STRATEGY_PARAM_NAME}
          IN  /\ Cardinality(sel) = 1
              /\ \A k \in sel : ps[k].Value \in KnownProviders

(***************************************************************************)
(* C8.  When a secure-store query fails, the run has emitted no fetched    *)
(* output and written no checkpoint, whichever query it is.                *)
(***************************************************************************)
C8_StoreFailureLeavesNoPartialWork ==
    (pc = "failed" /\ failReason = "storeQuery")
    => (Fetched = <<>> /\ Written = <<>>)

(***************************************************************************)
(* C9.  Without an entry matching the application-credential marker the   *)
(* run builds no client: it fails before getClient.                        *)
(***************************************************************************)
C9_MissingAppCredentialIsFatal ==
    (\A i \in 1..Len(store) : ~Contains(store[i].ID, APP_ID_MARKER))
    => ~HasEvent("getClient")

(***************************************************************************)
(* C10.  What getTokens returns is, in store order and once each, the      *)
(* credentials of exactly the entries whose realm is the configured        *)
(* provider (and whose payload decodes); no entry of another realm         *)
(* contributes.                                                            *)
(***************************************************************************)
C10_TokensAreTheRealmEntries ==
    idx >= 1
    => LET usable == SelectSeq(store, IsUsableEntry)
       IN  /\ Len(tokens) = Len(usable)
           /\ \A i \in 1..Len(usable) :
                 LET d == JsonDecode(SecretOf(usable[i]))
                 IN  tokens[i] = [AccessToken |-> d.AccessToken,
                                  RefreshToken |-> d.RefreshToken,
                                  TokenType |-> d.TokenType,
                                  Expiry |-> d.Expires]

\* getTokens has dropped an entry of another realm and kept the one of the
\* configured provider that follows it
C10_Witness ==
    /\ idx >= 1
    /\ Len(store) = 2
    /\ ~IsRealmEntry(store[1])
    /\ HasRealm(store[1], STRATEGY_FITBIT)
    /\ IsRealmEntry(store[2])
    /\ Len(tokens) = 1

(***************************************************************************)
(* C11.  Across serialized runs the first fetch window of a run starts     *)
(* exactly at the checkpoint the last successful writeCheckPoint of an     *)
(* earlier run left in the file.                                           *)
(***************************************************************************)
C11_NextRunResumesAtCheckpoint ==
    (/\ idx = 1
     /\ pc \in {"getReaderStrategy", "getData", "inGetData", "writeCheckPoint"}
     /\ Readable(CheckPointFile))
    => (/\ history.any
        /\ GobDecode(CheckPointFile.data).t = history.last
        /\ startTime = history.last
        /\ fitnessReader.kind # "nil" => fitnessReader.startTime = history.last)

\* the second run fetches for its first credential from the checkpoint
\* the first run wrote, which lies before the current time
C11_Witness ==
    /\ runs = 2
    /\ idx = 1
    /\ pc = "inGetData"
    /\ history.any
    /\ Readable(CheckPointFile)
    /\ fitnessReader.startTime = history.last
    /\ history.last > 0
    /\ history.last < now

(***************************************************************************)
(* C12.  A run whose configured provider is not a known provider never     *)
(* completes cleanly, and during it the checkpoint file is neither read    *)
(* nor written.                                                            *)
(***************************************************************************)
C12_UnknownProviderFailsUntouched ==
    (pc # "idle" /\ ConfiguredProvider \notin KnownProviders)
    => (/\ pc # "done"
        /\ ~HasEvent("readCheckPoint")
        /\ ~HasEvent("writeCheckPoint"))

(***************************************************************************)
(* C13.  The application credential is resolved once per run: a run that   *)
(* has processed its N >= 1 user credentials has made exactly one          *)
(* app-credential lookup against the secure store.                         *)
(***************************************************************************)
C13_AppCredentialResolvedOnce ==
    (pc = "done" /\ Len(tokens) >= 1)
    => Len(TimesOf(trace, "query:getAppCredentials")) = 1

(***************************************************************************)
(* C14.  Checkpoint round trip: for every timestamp T of the test set,     *)
(* writeCheckPoint(T) followed by readCheckPoint on the same instance      *)
(* returns exactly T with no error.                                        *)
(***************************************************************************)
C14_CheckPointRoundTrip ==
    /\ pc = "roundTrip:read"
          => (/\ Readable(CheckPointFile)
              /\ GobDecode(CheckPointFile.data).t = retTime)
    /\ pc = "roundTrip:done" => (rc.err = "" /\ rc.t = retTime)
    /\ pc \in {"roundTrip:write", "roundTrip:read", "roundTrip:done"}

\* a far-future timestamp has been written and read back
C14_Witness ==
    /\ pc = "roundTrip:done"
    /\ retTime = 2^MaxExp + 1
    /\ rc = [t |-> retTime, err |-> ""]
    /\ history.last = retTime
    /\ now < retTime

(***************************************************************************)
(* C15.  When no stored entry is tagged with the configured provider, a    *)
(* run whose store query succeeds completes cleanly having done nothing    *)
(* but that query: no app-credential lookup, no checkpoint read, no fetch, *)
(* no output, and the checkpoint file is left unchanged.                   *)
(***************************************************************************)
C15_NoCredentialNoWork ==
    [][(/\ pc \in {"getTokens", "done"}
        /\ ConfiguredProvider # ""
        /\ \A k \in 1..Len(store) : ~IsRealmEntry(store[k]))
       => (/\ files' = files
           /\ history' = history
           /\ pc = "getTokens"
                 => (\/ pc' = "failed" /\ failReason' = "storeQuery"
                     \/ /\ pc' = "done"
                        /\ tokens' = <<>>
                        /\ trace' = <<Event("query:getTokens", 0)>>
                        /\ inFlight' = 0))]_vars

\* a run over a store of other providers' entries has completed, the
\* checkpoint file as it was
C15_Witness ==
    /\ pc = "done"
    /\ ConfiguredProvider # ""
    /\ Len(store) >= 1
    /\ \A k \in 1..Len(store) : ~IsRealmEntry(store[k])
    /\ trace = <<Event("query:getTokens", 0)>>
    /\ CheckPointFile.exists
    /\ ~history.any

(***************************************************************************)
(* C16.  A checkpoint write failure is fatal: the run ends failed, no      *)
(* fetch is made for a later credential, and the checkpoint file still     *)
(* holds the value it had before the failed write.                         *)
(***************************************************************************)
C16_FailedWriteKeepsCheckpoint ==
    [][/\ (pc = "writeCheckPoint" /\ pc' = "failed")
             => failReason' \in {"checkpointWrite", "panic"}
       /\ (pc = "writeCheckPoint" /\ pc' = "failed" /\ Readable(CheckPointFile))
             => (/\ Readable(CheckPointFileNext)
                 /\ GobDecode(CheckPointFileNext.data).t
                       = GobDecode(CheckPointFile.data).t)
       /\ (pc = "failed" /\ failReason = "checkpointWrite")
             => (/\ pc' = "idle"
                 /\ files' = files
                 /\ Len(Fetched) = idx)]_vars

(***************************************************************************)
(* C17.  If no checkpoint file exists for the instance, the run does not   *)
(* fail on it: readCheckPoint's error is absorbed, the fetch window starts *)
(* at the current time, the fetch proceeds (for the provider that has a    *)
(* reader), and a checkpoint file exists after the first credential whose  *)
(* fetch and write succeed.                                                *)
(***************************************************************************)
C17_MissingCheckpointIsNotFatal ==
    [][/\ (/\ pc = "readCheckPoint"
           /\ ~getCheckPointPath(config).panic
           /\ ~CheckPointFile.exists)
          => (pc' = "getTimes" /\ rc' = [t |-> now, err |-> "read"])
       /\ (pc = "getTimes" /\ rc.err = "read")
          => (/\ pc' = "getReaderStrategy"
              /\ startTime' = now
              /\ endTime' = now')
       /\ (/\ pc = "getReaderStrategy"
           /\ rc.err = "read"
           /\ ConfiguredProvider = STRATEGY_GOOGLE)
          => (/\ pc' = "getData"
              /\ fitnessReader'.startTime = startTime)
       /\ (/\ pc = "writeCheckPoint"
           /\ rc.err = "read"
           /\ pc' \in {"getAppCredentials", "done"})
          => (/\ Readable(CheckPointFileNext)
              /\ GobDecode(CheckPointFileNext.data).t = retTime)]_vars

\* a run that found no checkpoint file has fetched from the current time
\* on and left a checkpoint
C17_Witness ==
    /\ pc = "done"
    /\ runs = 1
    /\ Len(tokens) = 1
    /\ rc.err = "read"
    /\ startTime = rc.t
    /\ Len(Fetched) = 1
    /\ Readable(CheckPointFile)
    /\ GobDecode(CheckPointFile.data).t = retTime

(***************************************************************************)
(* C19.  Within one run over k >= 2 credentials all credentials share one  *)
(* checkpoint file: the window of credential i+1 starts at the timestamp   *)
(* written after credential i's fetch, and after the run the file holds    *)
(* only the timestamp the last credential's fetch returned.                *)
(***************************************************************************)
C19_CredentialsShareOneCheckpoint ==
    /\ (/\ idx >= 2
        /\ pc \in {"getReaderStrategy", "getData", "inGetData",
                   "writeCheckPoint"})
       => (/\ Len(Written) = idx - 1
           /\ startTime = Written[idx - 1]
           /\ startTime = Fetched[idx - 1])
    /\ (pc = "done" /\ Len(tokens) >= 2)
       => (/\ Len(Fetched) = Len(tokens)
           /\ Readable(CheckPointFile)
           /\ GobDecode(CheckPointFile.data).t = Fetched[Len(tokens)])

\* in a later run the second credential's window started at the first
\* credential's timestamp, not at what the first credential had read, and
\* the file holds the second credential's timestamp only
C19_Witness ==
    /\ pc = "done"
    /\ runs = 2
    /\ Len(tokens) = 2
    /\ startTime = Written[1]
    /\ TimesOf(trace, "readCheckPoint")[1] < Written[1]
    /\ Written[2] > Written[1]
    /\ GobDecode(CheckPointFile.data).t = Written[2]

(***************************************************************************)
(* C20.  getCheckPointPath gives every polling instance its own checkpoint *)
(* file: the same stanza name always maps to the same path, configurations *)
(* with different stanza names never map to the same path, and the path is *)
(* derived from the stanza whose provider parameter getStrategy uses.      *)
(***************************************************************************)
C20_OneCheckpointPerInstance ==
    LET names(c) == {c.Stanzas[i].StanzaName : i \in 1..Len(c.Stanzas)}
        path(c) == getCheckPointPath(c)
        withProvider ==
            {i \in 1..Len(config.Stanzas) :
                \E k \in 1..Len(config.Stanzas[i].Params) :
                   config.Stanzas[i].Params[k].Name = STRATEGY_PARAM_NAME}
    IN  /\ \A c \in RunConfigs :
              (~path(config).panic /\ ~path(c).panic)
              => (/\ c.Stanzas[1].StanzaName = config.Stanzas[1].StanzaName
                        => path(c).path = path(config).path
                  /\ names(c) \cap names(config) = {}
                        => path(c).path # path(config).path)
        /\ \A i \in withProvider : \A j \in withProvider : j <= i => i = 1

(***************************************************************************)
(* C18.  When two runs of the same instance overlap, nothing holds the     *)
(* second back while the first is between its read of the checkpoint and   *)
(* its write: the second may read and write the one file at any such       *)
(* moment, the file holds whatever was written last, and so it can end     *)
(* holding an earlier timestamp than one already written.                  *)
(***************************************************************************)
C18_NoLockOnCheckpoint ==
    /\ peer.pc = "readCheckPoint" => ENABLED PeerReadCheckPoint
    /\ peer.pc = "writeCheckPoint" => ENABLED PeerWriteCheckPoint
    /\ (history.any /\ Readable(CheckPointFile))
          => GobDecode(CheckPointFile.data).t = history.last

\* the checkpoint has regressed: the file holds a timestamp earlier than
\* one that was written before
C18_Witness ==
    /\ history.any
    /\ Readable(CheckPointFile)
    /\ GobDecode(CheckPointFile.data).t < history.max
    /\ peer.pc # "idle"

====
